---- MODULE Spec2Model ----
(***************************************************************************)
(* The to-do list page (HomePage): the task collection kept in React      *)
(* state, its snapshot in localStorage under "agentic_todo_tasks", and    *)
(* the filtered and sorted view derived from it.                          *)
(*                                                                         *)
(* Encoding.  A JavaScript string is a sequence of one-character strings, *)
(* so that trim, toLowerCase and includes are computed and not assumed.   *)
(* A date (an ISO string or the value of a date input) is represented by  *)
(* its timestamp, a day number >= 1.  A JavaScript object is a record; a  *)
(* key that is missing from the object is missing from the record.        *)
(***************************************************************************)
EXTENDS Integers, Sequences, FiniteSets, TLC

VARIABLES
    tasks,        \* useState<Task[]>: the committed task collection
    slot,         \* localStorage entry LOCAL_STORAGE_KEY
    pc,           \* position of the page: start, loaded, persisted, ready, crashed
    pending,      \* the setTasks update queued by the load effect
    logged,       \* number of console.error calls of the load effect
    storageFull,  \* localStorage.setItem throws (quota exceeded); FALSE in Spec and SpecView
    nextId,       \* number of identifiers crypto.randomUUID has handed out
    now,          \* the clock read by new Date()
    hist,         \* history: the last user operation, its inputs, the state before it
    filter        \* useState<FilterState>

storeVars == <<tasks, slot, pc, pending, logged, storageFull, nextId, now, hist>>
vars == <<tasks, slot, pc, pending, logged, storageFull, nextId, now, hist, filter>>

(***************************************************************************)
(* Bounds of the model.                                                    *)
(***************************************************************************)
MaxTasks == 2      \* longest collection the form may grow
MaxAdds == 1       \* identifiers handed out over all sessions
MaxView == 3       \* longest collection whose view is computed

(***************************************************************************)
(* Values.                                                                 *)
(***************************************************************************)
Undefined == 0     \* the value undefined (what reading a missing key gives); every number of the model is >= 1
NoDate == 0        \* the value "" of the date input

Get(o, k) == IF k \in DOMAIN o THEN o[k] ELSE Undefined

\* !x for a date-or-undefined value
Falsy(x) == x = Undefined

(***************************************************************************)
(* Strings.                                                                *)
(***************************************************************************)
IsSpace(c) == c = " "

RECURSIVE TrimStart(_)
TrimStart(s) ==
    IF s # <<>> /\ IsSpace(Head(s)) THEN TrimStart(Tail(s)) ELSE s

RECURSIVE TrimEnd(_)
TrimEnd(s) ==
    IF s # <<>> /\ IsSpace(s[Len(s)]) THEN TrimEnd(SubSeq(s, 1, Len(s) - 1)) ELSE s

\* String.prototype.trim
Trim(s) == TrimEnd(TrimStart(s))

LowerChar(c) == IF c = "A" THEN "a" ELSE IF c = "B" THEN "b" ELSE c

\* String.prototype.toLowerCase
ToLowerCase(s) == [i \in 1..Len(s) |-> LowerChar(s[i])]

\* String.prototype.includes
Includes(s, term) ==
    \E i \in 0..(Len(s) - Len(term)) : SubSeq(s, i + 1, i + Len(term)) = term

(***************************************************************************)
(* Tasks.                                                                  *)
(***************************************************************************)
Priorities == {"high", "medium", "low"}

\* The keys whose values are numbers in this encoding.
NumericKeys == {"id", "createdAt", "dueDate"}

\* type Task: the keys every task has (dueDate is optional)
RequiredKeys == {"id", "title", "description", "completed", "createdAt", "priority"}

IsTaskShaped(o) == RequiredKeys \subseteq DOMAIN o

\* task.id, task.completed as the code reads them, on any object
TaskId(o) == Get(o, "id")
Completed(o) == "completed" \in DOMAIN o /\ o.completed

(***************************************************************************)
(* localStorage and JSON.  The slot is absent or holds a text; a text is   *)
(* the empty string, something JSON.parse rejects, or a JSON document.     *)
(***************************************************************************)
Absent == [present |-> FALSE, form |-> "none", items |-> <<>>]
Text(form, items) == [present |-> TRUE, form |-> form, items |-> items]

\* Mutant: the optional dueDate is left out whatever it holds.
StringifyObjectWithoutDue(o) == [k \in DOMAIN o \ {"dueDate"} |-> o[k]]

\* JSON.stringify of one object: a key whose value is undefined is left out
StringifyObject(o) ==
    [k \in {j \in DOMAIN o : ~(j \in NumericKeys /\ o[j] = Undefined)} |-> o[k]]

\* JSON.stringify(tasks)
Stringify(ts) == Text("array", [i \in 1..Len(ts) |-> StringifyObject(ts[i])])

\* JSON.parse(saved) throws a SyntaxError
ParseThrows(text) == text.form \in {"empty", "garbage"}

\* Array.isArray(JSON.parse(saved))
ParsedIsArray(text) == text.form = "array"

\* JSON.parse(saved), for an array: each JSON object becomes an object with its keys
Parse(text) == text.items

\* !saved: getItem gave null or the empty string
NotSaved(s) == ~s.present \/ s.form = "empty"

(***************************************************************************)
(* What the slot may hold when the page is opened.                         *)
(***************************************************************************)
SavedA ==
    [id |-> 101, title |-> <<"a">>, description |-> <<>>, completed |-> TRUE,
     createdAt |-> 1, priority |-> "low"]
SavedB ==
    [id |-> 102, title |-> <<"B">>, description |-> <<"a", "b">>, completed |-> FALSE,
     createdAt |-> 1, dueDate |-> 1, priority |-> "high"]
SavedC ==
    [id |-> 103, title |-> <<"b", " ", "a">>, description |-> <<>>, completed |-> FALSE,
     createdAt |-> 1, priority |-> "medium"]
\* objects that are not tasks: one with a priority only, one without
PartialObject == [priority |-> "high"]
OtherObject == [num |-> 42]

InitialSlots ==
    {Absent, Text("empty", <<>>), Text("garbage", <<>>), Text("null", <<>>),
     Text("number", <<>>), Text("string", <<>>), Text("object", <<>>)}
    \cup {Text("array", a) : a \in {<<>>, <<SavedB, SavedA, SavedC>>,
                                    <<PartialObject>>, <<SavedA, OtherObject>>}}

(***************************************************************************)
(* The form.                                                               *)
(***************************************************************************)
Drafts ==
    {[title |-> <<>>, description |-> <<>>, dueDate |-> NoDate, priority |-> "medium"],
     [title |-> <<" ">>, description |-> <<"b">>, dueDate |-> 1, priority |-> "high"],
     [title |-> <<" ", "A", " ">>, description |-> <<" ", "b">>, dueDate |-> NoDate,
      priority |-> "medium"],
     [title |-> <<"b", " ", "a">>, description |-> <<>>, dueDate |-> 2, priority |-> "low"]}

\* an identifier no task has
UnknownId == 999

\* The checkbox of a row: updateTask(task.id, { completed: event.target.checked })
CheckboxPatch(t) == [completed |-> ~Completed(t)]

\* "Cycle priority" of a row: high -> medium -> low -> high
CyclePatch(t) ==
    [priority |-> IF Get(t, "priority") = "high" THEN "medium"
                  ELSE IF Get(t, "priority") = "medium" THEN "low" ELSE "high"]

\* The calls of updateTask: the two controls of each row on display, and
\* calls with an identifier that matches nothing.
UpdateCalls ==
    {<<TaskId(tasks[i]), CheckboxPatch(tasks[i])>> : i \in 1..Len(tasks)}
    \cup {<<TaskId(tasks[i]), CyclePatch(tasks[i])>> : i \in 1..Len(tasks)}
    \cup {<<UnknownId, [completed |-> TRUE, priority |-> "low"]>>}

\* The calls of deleteTask: "Delete" of each row, and an identifier that matches nothing.
DeleteCalls == {TaskId(tasks[i]) : i \in 1..Len(tasks)} \cup {UnknownId}

\* History: op, draft, id, patch are the last user operation and its inputs,
\* pre and preSlot the collection and the slot before it; reloaded tells that
\* the page was opened again since; loaded and saved tell that no operation
\* followed the load effect, and what that effect read; before is the
\* collection the page held when it was last left ready, until the next
\* operation; removed holds the identifiers deleteTask has removed since the
\* page was opened.
NoHist ==
    [op |-> "none", pre |-> <<>>, preSlot |-> Absent, draft |-> <<>>, id |-> Undefined,
     patch |-> <<>>, reloaded |-> FALSE, loaded |-> FALSE, saved |-> Absent,
     before |-> [set |-> FALSE, value |-> <<>>], removed |-> {}]

NoPending == [set |-> FALSE, value |-> <<>>]

defaultFilter == [query |-> <<>>, status |-> "all", priority |-> "all", sort |-> "created"]

(***************************************************************************)
(* Rendering and the persist effect.                                       *)
(***************************************************************************)
\* The row of a displayed task calls task.priority.charAt: a TypeError when
\* the object has no priority.
RenderThrows(ts) == \E i \in 1..Len(ts) : "priority" \notin DOMAIN ts[i]

\* Mutant: the effect writes the collection of the previous render.
PersistEffectStale(ts) == pc' = "ready" /\ slot' = Stringify(tasks)

\* localStorage.setItem(LOCAL_STORAGE_KEY, JSON.stringify(tasks))
PersistEffect(ts) ==
    IF storageFull
    THEN pc' = "crashed" /\ slot' = slot
    ELSE pc' = "ready" /\ slot' = Stringify(ts)

\* setTasks(...) followed by the render it causes and the persist effect of
\* that render ([tasks] changed: every update makes a new array).
Commit(ts) ==
    IF RenderThrows(ts)
    THEN pc' = "crashed" /\ tasks' = tasks /\ slot' = slot
    ELSE tasks' = ts /\ PersistEffect(ts)

(***************************************************************************)
(* Startup: the first render and its two effects, each run once in the     *)
(* order they are declared (a production build).  The update the load      *)
(* effect queues is rendered after both effects have run; the user acts on *)
(* the page once that render is done.                                      *)
(***************************************************************************)
StoreInit ==
    /\ tasks = <<>>
    /\ slot \in InitialSlots
    /\ pc = "start"
    /\ pending = NoPending
    /\ logged = 0
    /\ storageFull = FALSE
    /\ nextId = 0
    /\ now = 2
    /\ hist = NoHist

\* Mutant: the load effect without its try/catch.
LoadEffectNoCatch ==
    /\ pc = "start"
    /\ IF NotSaved(slot)
       THEN pc' = "loaded" /\ pending' = NoPending
       ELSE IF ParseThrows(slot)
            THEN pc' = "crashed" /\ pending' = NoPending
            ELSE IF ParsedIsArray(slot)
                 THEN pc' = "loaded" /\ pending' = [set |-> TRUE, value |-> Parse(slot)]
                 ELSE pc' = "loaded" /\ pending' = NoPending
    /\ hist' = [hist EXCEPT !.loaded = TRUE, !.saved = slot]
    /\ UNCHANGED <<tasks, slot, logged, storageFull, nextId, now, filter>>

\* useEffect(() => { getItem; parse; setTasks(parsed) }, [])
LoadEffect ==
    /\ pc = "start"
    /\ pc' = "loaded"
    /\ IF NotSaved(slot)
       THEN pending' = NoPending /\ logged' = logged
       ELSE IF ParseThrows(slot)
            THEN pending' = NoPending /\ logged' = logged + 1
            ELSE IF ParsedIsArray(slot)
                 THEN pending' = [set |-> TRUE, value |-> Parse(slot)] /\ logged' = logged
                 ELSE pending' = NoPending /\ logged' = logged
    /\ hist' = [hist EXCEPT !.loaded = TRUE, !.saved = slot]
    /\ UNCHANGED <<tasks, slot, storageFull, nextId, now, filter>>

\* useEffect(() => setItem(stringify(tasks)), [tasks]) after the first render,
\* where tasks is still the initial []
FirstPersistEffect ==
    /\ pc = "loaded"
    /\ IF storageFull
       THEN pc' = "crashed" /\ slot' = slot
       ELSE pc' = "persisted" /\ slot' = Stringify(tasks)
    /\ UNCHANGED <<tasks, pending, logged, storageFull, nextId, now, hist, filter>>

\* The render that the load effect's setTasks causes, with its persist effect.
Rerender ==
    /\ pc = "persisted"
    /\ IF pending.set
       THEN Commit(pending.value)
       ELSE pc' = "ready" /\ UNCHANGED <<tasks, slot>>
    /\ pending' = NoPending
    /\ UNCHANGED <<logged, storageFull, nextId, now, hist, filter>>

\* The page is opened again: a new HomePage over the same localStorage.
Reload ==
    /\ pc \in {"ready", "crashed"}
    /\ pc' = "start"
    /\ tasks' = <<>>
    /\ pending' = NoPending
    /\ logged' = 0
    /\ hist' = [IF hist.op = "submit" /\ pc = "ready" THEN hist ELSE NoHist
                   EXCEPT !.reloaded = TRUE, !.loaded = FALSE, !.saved = Absent,
                          !.before = [set |-> pc = "ready", value |-> tasks],
                          !.removed = {}]
    /\ UNCHANGED <<slot, storageFull, nextId, now, filter>>

(***************************************************************************)
(* The Store operations.  A handler runs to its end: its setTasks, the     *)
(* render that follows and the persist effect of that render happen before *)
(* the next event is handled.  Each operation is taken with the inputs the *)
(* page gives it; updateTask and deleteTask also with an identifier that   *)
(* matches no task.                                                        *)
(***************************************************************************)
Op(name, d, id, patch) ==
    [op |-> name, pre |-> tasks, preSlot |-> slot, draft |-> d, id |-> id,
     patch |-> patch, reloaded |-> FALSE, loaded |-> FALSE, saved |-> Absent,
     before |-> [set |-> FALSE, value |-> <<>>],
     removed |-> IF name = "delete" /\ \E i \in 1..Len(tasks) : TaskId(tasks[i]) = id
                 THEN hist.removed \cup {id}
                 ELSE hist.removed]

\* Mutant: the title is stored as typed.
NewTaskUntrimmed(d, id, at) ==
    [id |-> id, title |-> d.title, description |-> Trim(d.description),
     completed |-> FALSE, createdAt |-> at,
     dueDate |-> IF d.dueDate # NoDate THEN d.dueDate ELSE Undefined,
     priority |-> d.priority]

\* const newTask: Task = {...}
NewTask(d, id, at) ==
    [id |-> id, title |-> Trim(d.title), description |-> Trim(d.description),
     completed |-> FALSE, createdAt |-> at,
     dueDate |-> IF d.dueDate # NoDate THEN d.dueDate ELSE Undefined,
     priority |-> d.priority]

\* Mutant: the new task goes behind the others.
PrependBehind(t, prev) == prev \o <<t>>

\* (prev) => [newTask, ...prev]
Prepend(t, prev) == <<t>> \o prev

\* Mutant: the guard tests the title as typed, not trimmed.
HandleSubmitUntrimmedGuard(d) ==
    /\ pc = "ready"
    /\ hist' = Op("submit", d, Undefined, <<>>)
    /\ IF d.title = <<>>
       THEN UNCHANGED <<tasks, slot, pc, nextId, now>>
       ELSE /\ Len(tasks) < MaxTasks
            /\ nextId < MaxAdds
            /\ nextId' = nextId + 1
            /\ now' = now + 1
            /\ tasks' = <<[id |-> nextId + 1, title |-> Trim(d.title),
                           description |-> Trim(d.description), completed |-> FALSE,
                           createdAt |-> now,
                           dueDate |-> IF d.dueDate # NoDate THEN d.dueDate ELSE Undefined,
                           priority |-> d.priority]>> \o tasks
            /\ slot' = Stringify(tasks')
            /\ pc' = "ready"
    /\ UNCHANGED <<pending, logged, storageFull, filter>>

\* Mutant: the identifier is made from the length of the collection, as
\* 101, 102, ... were.
HandleSubmitIdFromLength(d) ==
    /\ pc = "ready"
    /\ hist' = Op("submit", d, Undefined, <<>>)
    /\ IF Trim(d.title) = <<>>
       THEN UNCHANGED <<tasks, slot, pc, nextId, now>>
       ELSE /\ Len(tasks) < MaxTasks
            /\ nextId < MaxAdds
            /\ nextId' = nextId + 1
            /\ now' = now + 1
            /\ Commit(Prepend(NewTask(d, 100 + Len(tasks) + 1, now), tasks))
    /\ UNCHANGED <<pending, logged, storageFull, filter>>

\* handleSubmit; the clock has moved on when the next task is made
HandleSubmit(d) ==
    /\ pc = "ready"
    /\ hist' = Op("submit", d, Undefined, <<>>)
    /\ IF Trim(d.title) = <<>>
       THEN UNCHANGED <<tasks, slot, pc, nextId, now>>
       ELSE /\ Len(tasks) < MaxTasks
            /\ nextId < MaxAdds
            /\ nextId' = nextId + 1
            /\ now' = now + 1
            /\ Commit(Prepend(NewTask(d, nextId + 1, now), tasks))
    /\ UNCHANGED <<pending, logged, storageFull, filter>>

\* Mutant: the spread is written the other way round, the task's fields win.
ApplyPatchTaskWins(t, p) ==
    [k \in DOMAIN t \cup DOMAIN p |-> IF k \in DOMAIN t THEN t[k] ELSE p[k]]

\* { ...task, ...patch }
ApplyPatch(t, p) ==
    [k \in DOMAIN t \cup DOMAIN p |-> IF k \in DOMAIN p THEN p[k] ELSE t[k]]

\* Mutant: the patch is applied without comparing identifiers.
MapPatchEvery(prev, id, patch) == [i \in 1..Len(prev) |-> ApplyPatch(prev[i], patch)]

\* prev.map((task) => (task.id === id ? { ...task, ...patch } : task))
MapPatch(prev, id, patch) ==
    [i \in 1..Len(prev) |-> IF TaskId(prev[i]) = id THEN ApplyPatch(prev[i], patch)
                                                  ELSE prev[i]]

\* Mutant: the patched task is stamped with the time of the update.
UpdateTaskRestamped(id, patch) ==
    /\ pc = "ready"
    /\ hist' = Op("update", <<>>, id, patch)
    /\ Commit(MapPatch(tasks, id, ApplyPatch(patch, [createdAt |-> now])))
    /\ UNCHANGED <<pending, logged, storageFull, nextId, now, filter>>

\* updateTask
UpdateTask(id, patch) ==
    /\ pc = "ready"
    /\ hist' = Op("update", <<>>, id, patch)
    /\ Commit(MapPatch(tasks, id, patch))
    /\ UNCHANGED <<pending, logged, storageFull, nextId, now, filter>>

\* prev.filter((task) => task.id !== id)
WithoutId(prev, id) == SelectSeq(prev, LAMBDA t : TaskId(t) # id)

\* deleteTask
DeleteTask(id) ==
    /\ pc = "ready"
    /\ hist' = Op("delete", <<>>, id, <<>>)
    /\ Commit(WithoutId(tasks, id))
    /\ UNCHANGED <<pending, logged, storageFull, nextId, now, filter>>

\* Mutant: the predicate of the filter is inverted.
OnlyCompleted(prev) == SelectSeq(prev, LAMBDA t : Completed(t))

\* prev.filter((task) => !task.completed)
WithoutCompleted(prev) == SelectSeq(prev, LAMBDA t : ~Completed(t))

\* clearCompleted
ClearCompleted ==
    /\ pc = "ready"
    /\ hist' = Op("clear", <<>>, Undefined, <<>>)
    /\ Commit(WithoutCompleted(tasks))
    /\ UNCHANGED <<pending, logged, storageFull, nextId, now, filter>>

Init ==
    /\ StoreInit
    /\ filter = defaultFilter

Next ==
    \/ LoadEffect
    \/ FirstPersistEffect
    \/ Rerender
    \/ Reload
    \/ \E d \in Drafts : HandleSubmit(d)
    \/ \E call \in UpdateCalls : UpdateTask(call[1], call[2])
    \/ \E id \in DeleteCalls : DeleteTask(id)
    \/ ClearCompleted

Spec == Init /\ [][Next]_vars

(***************************************************************************)
(* The view: filteredTasks = [...tasks].filter(...).sort(...).             *)
(***************************************************************************)
\* Mutant: the query is tested as typed, not trimmed.
KeepUntrimmedQuery(task, f) ==
    IF f.status = "active" /\ Completed(task) THEN FALSE
    ELSE IF f.status = "completed" /\ ~Completed(task) THEN FALSE
    ELSE IF f.priority # "all" /\ task.priority # f.priority THEN FALSE
    ELSE IF f.query # <<>>
         THEN LET term == ToLowerCase(f.query)
              IN  \/ Includes(ToLowerCase(task.title), term)
                  \/ Includes(ToLowerCase(task.description), term)
         ELSE TRUE

\* Mutant: the title and the description are searched as they are written.
KeepCaseSensitive(task, f) ==
    IF f.status = "active" /\ Completed(task) THEN FALSE
    ELSE IF f.status = "completed" /\ ~Completed(task) THEN FALSE
    ELSE IF f.priority # "all" /\ task.priority # f.priority THEN FALSE
    ELSE IF Trim(f.query) # <<>>
         THEN LET term == ToLowerCase(f.query)
              IN  Includes(task.title, term) \/ Includes(task.description, term)
         ELSE TRUE

\* the callback of filter
Keep(task, f) ==
    IF f.status = "active" /\ Completed(task) THEN FALSE
    ELSE IF f.status = "completed" /\ ~Completed(task) THEN FALSE
    ELSE IF f.priority # "all" /\ task.priority # f.priority THEN FALSE
    ELSE IF Trim(f.query) # <<>>
         THEN LET term == ToLowerCase(f.query)
              IN  \/ Includes(ToLowerCase(task.title), term)
                  \/ Includes(ToLowerCase(task.description), term)
         ELSE TRUE

\* Mutant: the ranks run from low to high.
priorityRankAscending(p) == IF p = "low" THEN 0 ELSE IF p = "medium" THEN 1 ELSE 2

\* const priorityRank = { high: 0, medium: 1, low: 2 }
priorityRank(p) == IF p = "high" THEN 0 ELSE IF p = "medium" THEN 1 ELSE 2

\* String.prototype.localeCompare: letters first compared without their
\* case (space before a before b, a prefix before its extensions), and
\* lower case before upper case when that leaves the strings equal.
LetterRank(c) == IF c = " " THEN 0 ELSE IF LowerChar(c) = "a" THEN 1 ELSE 2
CaseRank(c) == IF c = LowerChar(c) THEN 0 ELSE 1

RECURSIVE LexCompare(_, _)
LexCompare(x, y) ==
    IF x = <<>> /\ y = <<>> THEN 0
    ELSE IF x = <<>> THEN -1
    ELSE IF y = <<>> THEN 1
    ELSE IF Head(x) # Head(y) THEN Head(x) - Head(y)
    ELSE LexCompare(Tail(x), Tail(y))

LocaleCompare(x, y) ==
    LET primary == LexCompare([i \in 1..Len(x) |-> LetterRank(x[i])],
                              [i \in 1..Len(y) |-> LetterRank(y[i])])
    IN  IF primary # 0 THEN primary
        ELSE LexCompare([i \in 1..Len(x) |-> CaseRank(x[i])],
                        [i \in 1..Len(y) |-> CaseRank(y[i])])

\* Mutant: in the order by due date, a task without one goes first.
CompareUndatedFirst(a, b, sort) ==
    IF sort = "title" THEN LocaleCompare(a.title, b.title)
    ELSE IF sort = "priority" THEN priorityRank(a.priority) - priorityRank(b.priority)
    ELSE IF sort = "due"
         THEN IF Falsy(Get(a, "dueDate")) /\ Falsy(Get(b, "dueDate")) THEN 0
              ELSE IF Falsy(Get(a, "dueDate")) THEN -1
              ELSE IF Falsy(Get(b, "dueDate")) THEN 1
              ELSE a.dueDate - b.dueDate
    ELSE b.createdAt - a.createdAt

\* the callback of sort
Compare(a, b, sort) ==
    IF sort = "title" THEN LocaleCompare(a.title, b.title)
    ELSE IF sort = "priority" THEN priorityRank(a.priority) - priorityRank(b.priority)
    ELSE IF sort = "due"
         THEN IF Falsy(Get(a, "dueDate")) /\ Falsy(Get(b, "dueDate")) THEN 0
              ELSE IF Falsy(Get(a, "dueDate")) THEN 1
              ELSE IF Falsy(Get(b, "dueDate")) THEN -1
              ELSE a.dueDate - b.dueDate
    ELSE b.createdAt - a.createdAt

\* Array.prototype.sort: a stable sort, here by insertion
RECURSIVE Insert(_, _, _)
Insert(x, s, sort) ==
    IF s = <<>> THEN <<x>>
    ELSE IF Compare(Head(s), x, sort) <= 0 THEN <<Head(s)>> \o Insert(x, Tail(s), sort)
    ELSE <<x>> \o s

RECURSIVE SortBy(_, _)
SortBy(s, sort) ==
    IF s = <<>> THEN <<>>
    ELSE Insert(s[Len(s)], SortBy(SubSeq(s, 1, Len(s) - 1), sort), sort)

Project(ts, f) == SortBy(SelectSeq(ts, LAMBDA t : Keep(t, f)), f.sort)

\* useMemo(..., [tasks, filter])
filteredTasks == Project(tasks, filter)

(***************************************************************************)
(* The view's specification: a page that has loaded a collection, and the  *)
(* controls of the toolbar.                                                *)
(***************************************************************************)
ViewPool ==
    {[title |-> <<"a">>, description |-> <<>>, completed |-> FALSE, createdAt |-> 1,
      dueDate |-> 2, priority |-> "high"],
     [title |-> <<"B">>, description |-> <<"a", " ", "b">>, completed |-> TRUE,
      createdAt |-> 2, priority |-> "low"],
     [title |-> <<"A", "b">>, description |-> <<>>, completed |-> FALSE, createdAt |-> 3,
      dueDate |-> Undefined, priority |-> "medium"],
     [title |-> <<"b", " ", "a">>, description |-> <<"A">>, completed |-> TRUE,
      createdAt |-> 3, dueDate |-> 1, priority |-> "high"],
     [title |-> <<"A">>, description |-> <<>>, completed |-> FALSE, createdAt |-> 1,
      dueDate |-> 1, priority |-> "low"],
     [title |-> <<"b", "a">>, description |-> <<"b">>, completed |-> TRUE, createdAt |-> 2,
      dueDate |-> 2, priority |-> "medium"]}

\* collections of tasks of the pool, the task at position i having identifier i
ViewCollections ==
    UNION {{[i \in 1..n |-> ApplyPatch(c[i], [id |-> i])] : c \in [1..n -> ViewPool]}
           : n \in 0..MaxView}

Queries == {<<>>, <<" ">>, <<"A">>, <<"b">>, <<" ", "a">>}
Statuses == {"all", "active", "completed"}
PriorityFilters == {"all"} \cup Priorities
SortKeys == {"created", "due", "title", "priority"}

InitView ==
    /\ tasks \in ViewCollections
    /\ slot = Stringify(tasks)
    /\ pc = "ready"
    /\ pending = NoPending
    /\ logged = 0
    /\ storageFull = FALSE
    /\ nextId = 0
    /\ now = 2
    /\ hist = NoHist
    /\ filter = defaultFilter

\* onChange of the search input
SetQuery(q) ==
    /\ pc = "ready"
    /\ filter' = [filter EXCEPT !.query = q]
    /\ UNCHANGED storeVars

\* onChange of the status select
SetStatus(st) ==
    /\ pc = "ready"
    /\ filter' = [filter EXCEPT !.status = st]
    /\ UNCHANGED storeVars

\* onChange of the priority select
SetPriority(p) ==
    /\ pc = "ready"
    /\ filter' = [filter EXCEPT !.priority = p]
    /\ UNCHANGED storeVars

\* onChange of the sort select
SetSort(k) ==
    /\ pc = "ready"
    /\ filter' = [filter EXCEPT !.sort = k]
    /\ UNCHANGED storeVars

NextView ==
    \/ \E q \in Queries : SetQuery(q)
    \/ \E st \in Statuses : SetStatus(st)
    \/ \E p \in PriorityFilters : SetPriority(p)
    \/ \E k \in SortKeys : SetSort(k)

SpecView == InitView /\ [][NextView]_vars

(***************************************************************************)
(* Vocabulary of the properties, defined without the operators above.      *)
(***************************************************************************)
Mutations == {"submit", "update", "delete", "clear"}

\* s is empty or holds only whitespace
IsBlank(s) == \A i \in 1..Len(s) : s[i] = " "

\* t is s without its leading and trailing whitespace
IsTrimOf(t, s) ==
    \E i \in 1..(Len(s) + 1), j \in 0..Len(s) :
        /\ t = SubSeq(s, i, j)
        /\ \A k \in (1..(i - 1)) \cup ((j + 1)..Len(s)) : s[k] = " "
        /\ t # <<>> => (t[1] # " " /\ t[Len(t)] # " ")

\* a and b have the same keys with the same values, a key holding undefined
\* counting as a missing key
SameFields(a, b) ==
    LET Keys(o) == {k \in DOMAIN o : ~(k = "dueDate" /\ o[k] = Undefined)}
    IN  Keys(a) = Keys(b) /\ \A k \in Keys(a) : a[k] = b[k]

IdsOf(ts) == {TaskId(ts[i]) : i \in 1..Len(ts)}

\* the positions of ts that hold a task that is not completed, and the n-th of them
ActivePositions(ts) == {i \in 1..Len(ts) : ~("completed" \in DOMAIN ts[i] /\ ts[i].completed)}
NthOf(S, n) == CHOOSE i \in S : Cardinality({k \in S : k < i}) = n - 1

\* a text that JSON.parse accepts and that is an array
IsArrayText(s) == s.present /\ s.form = "array"

(***************************************************************************)
(* Properties of the Store (specification Spec).                           *)
(***************************************************************************)

\* C1: once a mutating operation has been carried out, the slot holds the
\* serialization of the whole current collection in every state in which a
\* further operation or a load can happen (the page is ready, or is opened
\* again and reads the slot); the operation leaves the page ready.
C1_SlotFollowsEveryMutation ==
    (hist.op \in Mutations /\ ~hist.reloaded)
        => (pc = "ready" /\ slot = Stringify(tasks))

C1_Witness ==
    /\ hist.op \in {"update", "delete", "clear", "submit"}
    /\ ~hist.reloaded
    /\ tasks # hist.pre
    /\ slot # hist.preSlot
    /\ slot = Stringify(tasks)
    /\ Len(tasks) >= 2

\* C2: an add with a title that is not blank, followed by opening the page
\* again and loading the snapshot, gives the tasks there were before the add,
\* in their order, behind one more task whose title is the trimmed title and
\* which is not completed.
C2_AddThenLoad ==
    (pc = "ready" /\ hist.op = "submit" /\ hist.reloaded /\ ~IsBlank(hist.draft.title))
        => /\ Len(tasks) = Len(hist.pre) + 1
           /\ IsTrimOf(tasks[1].title, hist.draft.title)
           /\ tasks[1].completed = FALSE
           /\ TaskId(tasks[1]) \notin IdsOf(hist.pre)
           /\ \A i \in 1..Len(hist.pre) : SameFields(tasks[i + 1], hist.pre[i])

C2_Witness ==
    /\ pc = "ready" /\ hist.op = "submit" /\ hist.reloaded /\ hist.loaded
    /\ ~IsBlank(hist.draft.title)
    /\ hist.draft.title # tasks[1].title
    /\ Len(hist.pre) >= 1
    /\ Len(tasks) = Len(hist.pre) + 1

\* C3 (as claimed): when the load effect has read an array that holds an
\* element that is not task-shaped, an error is logged and the collection is
\* empty once the page is ready.
C3_MalformedSequenceRejected ==
    (/\ pc = "ready" /\ hist.loaded
     /\ IsArrayText(hist.saved)
     /\ \E i \in 1..Len(hist.saved.items) : ~IsTaskShaped(hist.saved.items[i]))
        => (logged >= 1 /\ tasks = <<>>)

\* C4: when the load effect has read nothing, the empty string, a text that
\* does not parse or a text that parses to something that is not an array,
\* it queues no update, the collection stays empty and the page does not
\* crash.
C4_NonSequenceLoadsEmpty ==
    (hist.loaded /\ ~IsArrayText(hist.saved))
        => (tasks = <<>> /\ ~pending.set /\ pc # "crashed")

C4_Witness ==
    /\ pc = "ready" /\ hist.loaded
    /\ hist.saved.present /\ hist.saved.form = "garbage"
    /\ logged = 1
    /\ tasks = <<>>

C4_WitnessObject ==
    /\ pc = "ready" /\ hist.loaded
    /\ hist.saved.form = "object"
    /\ tasks = <<>>

\* C5: clearCompleted leaves exactly the tasks that were not completed, each
\* unchanged, in the order they had.
C5_ClearKeepsActiveInOrder ==
    (hist.op = "clear" /\ ~hist.reloaded)
        => LET act == ActivePositions(hist.pre)
           IN  /\ Len(tasks) = Cardinality(act)
               /\ \A n \in 1..Len(tasks) : tasks[n] = hist.pre[NthOf(act, n)]

C5_Witness ==
    /\ hist.op = "clear" /\ ~hist.reloaded
    /\ Len(hist.pre) = 3
    /\ Len(tasks) = 2
    /\ tasks = <<hist.pre[1], hist.pre[3]>>

\* C9: updateTask with an identifier that no task has leaves the collection
\* as it was.
C9_UpdateUnknownIdChangesNothing ==
    (hist.op = "update" /\ ~hist.reloaded /\ hist.id \notin IdsOf(hist.pre))
        => (pc = "ready" /\ tasks = hist.pre)

C9_Witness ==
    /\ hist.op = "update" /\ ~hist.reloaded
    /\ hist.id \notin IdsOf(hist.pre)
    /\ Len(hist.pre) >= 2
    /\ \E i \in 1..Len(hist.pre) : hist.pre[i].priority # hist.patch.priority
    /\ tasks = hist.pre

\* C10: a submit whose title is empty or only whitespace changes neither the
\* collection nor the slot, and the page stays ready.
C10_BlankTitleIsNoOp ==
    (hist.op = "submit" /\ ~hist.reloaded /\ IsBlank(hist.draft.title))
        => (tasks = hist.pre /\ slot = hist.preSlot /\ pc = "ready")

C10_Witness ==
    /\ hist.op = "submit" /\ ~hist.reloaded
    /\ hist.draft.title # <<>> /\ IsBlank(hist.draft.title)
    /\ Len(tasks) < MaxTasks
    /\ tasks = hist.pre /\ tasks # <<>>
    /\ slot = hist.preSlot

(***************************************************************************)
(* Properties of the view (specification SpecView).                        *)
(***************************************************************************)
\* the three predicates of the filter, stated on one task
StatusPasses(t, st) ==
    /\ st = "active" => t.completed = FALSE
    /\ st = "completed" => t.completed = TRUE
PriorityPasses(t, p) == p = "all" \/ t.priority = p
LowerOf(c) == IF c = "A" THEN "a" ELSE IF c = "B" THEN "b" ELSE c
ContainsIgnoringCase(s, q) ==
    \E off \in 0..Len(s) :
        /\ off + Len(q) <= Len(s)
        /\ \A j \in 1..Len(q) : LowerOf(s[off + j]) = LowerOf(q[j])
QueryPasses(t, q) ==
    IsBlank(q) \/ ContainsIgnoringCase(t.title, q) \/ ContainsIgnoringCase(t.description, q)

\* the tasks on display, by identifier, none twice
DisplayedIds == {filteredTasks[i].id : i \in 1..Len(filteredTasks)}
NoneTwice == Cardinality(DisplayedIds) = Len(filteredTasks)
HasDue(t) == "dueDate" \in DOMAIN t /\ t.dueDate # Undefined
\* the position a displayed task has in the collection
PositionOf(t) == CHOOSE i \in 1..Len(tasks) : tasks[i] = t

\* C6 (as claimed): with a query that is empty after trimming, every task of
\* the collection is on display, whatever the status and priority filters.
C6_EmptyQueryKeepsEverything ==
    IsBlank(filter.query) => Len(filteredTasks) = Len(tasks)

\* C6 (amended): with a query that is empty after trimming, the query rejects
\* nothing: the tasks on display are exactly those that pass the status
\* predicate and the priority predicate.
C6_EmptyQueryRejectsNothing ==
    IsBlank(filter.query)
        => /\ NoneTwice
           /\ \A i \in 1..Len(tasks) :
                  tasks[i].id \in DisplayedIds
                      <=> (StatusPasses(tasks[i], filter.status)
                           /\ PriorityPasses(tasks[i], filter.priority))
           /\ \A i \in 1..Len(filteredTasks) : filteredTasks[i] \in {tasks[j] : j \in 1..Len(tasks)}

C6_Witness ==
    /\ filter.query # <<>> /\ IsBlank(filter.query)
    /\ filter.status = "active"
    /\ filter.priority = "all"
    /\ Len(tasks) = 3
    /\ Len(filteredTasks) = 2
    /\ \A i \in 1..Len(tasks) : ~ContainsIgnoringCase(tasks[i].title, filter.query)

\* C7: the tasks on display are exactly the tasks of the collection that pass
\* the status predicate, the priority predicate and the query predicate, each
\* once and as it is in the collection.
C7_DisplayedIffAllPredicates ==
    /\ NoneTwice
    /\ \A i \in 1..Len(tasks) :
           tasks[i].id \in DisplayedIds
               <=> (/\ StatusPasses(tasks[i], filter.status)
                    /\ PriorityPasses(tasks[i], filter.priority)
                    /\ QueryPasses(tasks[i], filter.query))
    /\ \A i \in 1..Len(filteredTasks) : filteredTasks[i] \in {tasks[j] : j \in 1..Len(tasks)}

C7_Witness ==
    /\ filter.status = "completed" /\ filter.priority = "high" /\ filter.query = <<"A">>
    /\ Len(tasks) = 3
    /\ Len(filteredTasks) = 1
    /\ \E i \in 1..Len(tasks) :
           /\ StatusPasses(tasks[i], filter.status)
           /\ QueryPasses(tasks[i], filter.query)
           /\ ~PriorityPasses(tasks[i], filter.priority)
    /\ \E i \in 1..Len(tasks) :
           /\ ~StatusPasses(tasks[i], filter.status)
           /\ QueryPasses(tasks[i], filter.query)

\* C8: under the sort key "due", tasks with a due date come in ascending
\* order of it, no task without a due date comes before one that has one, and
\* the tasks without a due date are in the order they have in the collection.
C8_DueOrder ==
    filter.sort = "due"
        => \A i, j \in 1..Len(filteredTasks) :
               i < j =>
                   LET a == filteredTasks[i]
                       b == filteredTasks[j]
                   IN  /\ (HasDue(a) /\ HasDue(b)) => a.dueDate <= b.dueDate
                       /\ ~(~HasDue(a) /\ HasDue(b))
                       /\ (~HasDue(a) /\ ~HasDue(b)) => PositionOf(a) < PositionOf(b)

C8_Witness ==
    /\ filter.sort = "due"
    /\ Len(tasks) = 3 /\ Len(filteredTasks) = 3
    /\ HasDue(tasks[1]) /\ ~HasDue(tasks[2]) /\ HasDue(tasks[3])
    /\ tasks[1].dueDate > tasks[3].dueDate
    /\ filteredTasks = <<tasks[3], tasks[1], tasks[2]>>

C8_WitnessUndated ==
    /\ filter.sort = "due"
    /\ Len(tasks) = 3 /\ Len(filteredTasks) = 3
    /\ ~HasDue(tasks[1]) /\ ~HasDue(tasks[2]) /\ HasDue(tasks[3])
    /\ "dueDate" \in DOMAIN tasks[1] /\ "dueDate" \notin DOMAIN tasks[2]
    /\ filteredTasks = <<tasks[3], tasks[1], tasks[2]>>

(***************************************************************************)
(* What the list panel shows.                                              *)
(***************************************************************************)

\* const completedCount = tasks.filter((task) => task.completed).length
completedCount(ts) == Len(SelectSeq(ts, Completed))

\* the summary line, the "Clear completed" button, the "No tasks yet"
\* placeholder and the rows of the list, for a collection and a filter
Output(ts, f) ==
    [summary |-> <<completedCount(ts), Len(ts)>>,
     clearButton |-> completedCount(ts) > 0,
     emptyState |-> Len(Project(ts, f)) = 0,
     rows |-> Project(ts, f)]

\* what the first render shows, before any effect has run
InitialOutput == Output(<<>>, defaultFilter)

\* C11 (as claimed): a page that has loaded its snapshot and displays an empty
\* sequence shows something else than the page that has not yet loaded it.
C11_EmptyDistinctFromNotLoaded ==
    (pc = "ready" /\ hist.loaded /\ Len(filteredTasks) = 0)
        => Output(tasks, filter) # InitialOutput

(***************************************************************************)
(* The Store over a storage that can run out of room: from then on         *)
(* localStorage.setItem throws a QuotaExceededError.                       *)
(***************************************************************************)
StorageFills ==
    /\ ~storageFull
    /\ storageFull' = TRUE
    /\ UNCHANGED <<tasks, slot, pc, pending, logged, nextId, now, hist, filter>>

SpecQuota == Init /\ [][Next \/ StorageFills]_vars

\* C12 (as claimed): no operation ends in a crash; when the write of the
\* persist effect fails, the page is still there after the operation.
C12_NoOperationCrashes ==
    (hist.op \in Mutations /\ ~hist.reloaded) => pc # "crashed"

(***************************************************************************)
(* updateTask over its whole signature: (id: string, patch: Partial<Task>) *)
(* accepts a patch with any of the keys of Task.  The page calls it with   *)
(* CheckboxPatch and CyclePatch only (specification Spec); SpecApi takes   *)
(* it with other patches, on a collection the page has loaded.             *)
(***************************************************************************)
PartialTasks ==
    {[id |-> 101],
     [createdAt |-> 1, completed |-> TRUE],
     [title |-> <<"b">>, dueDate |-> Undefined, priority |-> "low"]}

ApiUpdateCalls ==
    {<<TaskId(tasks[i]), p>> : i \in 1..Len(tasks), p \in PartialTasks}
    \cup {<<UnknownId, p>> : p \in PartialTasks}

\* a page that has loaded two saved tasks
InitApi ==
    /\ tasks = <<SavedB, SavedA>>
    /\ slot = Stringify(tasks)
    /\ pc = "ready"
    /\ pending = NoPending
    /\ logged = 0
    /\ storageFull = FALSE
    /\ nextId = 0
    /\ now = 2
    /\ hist = NoHist
    /\ filter = defaultFilter

NextApi ==
    \/ \E d \in Drafts : HandleSubmit(d)
    \/ \E call \in ApiUpdateCalls : UpdateTask(call[1], call[2])
    \/ \E id \in DeleteCalls : DeleteTask(id)
    \/ ClearCompleted

SpecApi == InitApi /\ [][NextApi]_vars

(***************************************************************************)
(* Properties of updateTask over its signature (specification SpecApi).    *)
(***************************************************************************)

\* o and p have the same id and the same createdAt
SameIdentity(o, p) == Get(o, "id") = Get(p, "id") /\ Get(o, "createdAt") = Get(p, "createdAt")

\* the tasks that were there before the last operation and are there after
\* it have kept their id and createdAt; upd tells whether that is asked of
\* the task updateTask has patched too
IdentityKept(upd) ==
    IF hist.op = "update"
    THEN /\ Len(tasks) = Len(hist.pre)
         /\ \A i \in 1..Len(tasks) :
                (upd \/ Get(hist.pre[i], "id") # hist.id) => SameIdentity(tasks[i], hist.pre[i])
    ELSE \A i \in 1..Len(tasks) :
             \/ \E j \in 1..Len(hist.pre) : SameIdentity(tasks[i], hist.pre[j])
             \/ hist.op = "submit" /\ i = 1 /\ Len(tasks) = Len(hist.pre) + 1

NamesIdentity(patch) == "id" \in DOMAIN patch \/ "createdAt" \in DOMAIN patch

C19_PatchOverwritesExactly ==
    (hist.op = "update" /\ hist.id \in IdsOf(hist.pre))
        => /\ Len(tasks) = Len(hist.pre)
           /\ \A i \in 1..Len(hist.pre) :
                  IF TaskId(hist.pre[i]) = hist.id
                  THEN /\ DOMAIN tasks[i] = DOMAIN hist.pre[i] \cup DOMAIN hist.patch
                       /\ \A k \in DOMAIN hist.patch : tasks[i][k] = hist.patch[k]
                       /\ \A k \in DOMAIN hist.pre[i] \ DOMAIN hist.patch :
                              tasks[i][k] = hist.pre[i][k]
                  ELSE tasks[i] = hist.pre[i]

C19_Witness ==
    /\ pc = "ready" /\ hist.op = "update"
    /\ Len(hist.pre) = 2
    /\ hist.id = TaskId(hist.pre[2]) /\ hist.id # TaskId(hist.pre[1])
    /\ Cardinality(DOMAIN hist.patch) >= 2
    /\ "dueDate" \in DOMAIN hist.patch /\ "dueDate" \notin DOMAIN hist.pre[2]
    /\ tasks[2] # hist.pre[2]
    /\ tasks[1] = hist.pre[1]

(***************************************************************************)
(* Further properties of the Store (specification Spec).                   *)
(***************************************************************************)

\* o has a title that is not empty and has no whitespace at either end
HasTrimmedTitle(o) ==
    /\ "title" \in DOMAIN o
    /\ o.title # <<>>
    /\ o.title[1] # " " /\ o.title[Len(o.title)] # " "

\* C14 (as claimed): in every state reached by the load and by any sequence
\* of add, updateTask, deleteTask and clearCompleted, every task of the
\* collection has a title that is not empty and is trimmed.
C14_TitlesNonEmptyTrimmed ==
    pc = "ready" => \A i \in 1..Len(tasks) : HasTrimmedTitle(tasks[i])

\* C16: when the page is left ready and is opened again, the collection it
\* has once the snapshot is loaded is structurally equal to the collection it
\* held: as many tasks, in the same order, each with the same value of every
\* field, a task without a due date having none after the load.
C16_RoundTrip ==
    (pc = "ready" /\ hist.loaded /\ hist.before.set)
        => /\ Len(tasks) = Len(hist.before.value)
           /\ \A i \in 1..Len(tasks) :
                  /\ SameFields(tasks[i], hist.before.value[i])
                  /\ ~HasDue(hist.before.value[i]) => "dueDate" \notin DOMAIN tasks[i]

C16_Witness ==
    /\ pc = "ready" /\ hist.loaded /\ hist.before.set
    /\ Len(tasks) = 2
    /\ "dueDate" \in DOMAIN hist.before.value[1] /\ ~HasDue(hist.before.value[1])
    /\ "dueDate" \notin DOMAIN tasks[1]
    /\ HasDue(tasks[2])

\* C17 (as claimed): while the page starts (no operation has followed the
\* load effect) over a slot that held an array of task-shaped objects that is
\* not empty, the slot never holds the serialization of the empty collection.
C17_StartupNeverWritesEmpty ==
    (/\ hist.loaded
     /\ IsArrayText(hist.saved)
     /\ hist.saved.items # <<>>
     /\ \A i \in 1..Len(hist.saved.items) : IsTaskShaped(hist.saved.items[i]))
        => slot # Text("array", <<>>)

\* the position in ts of the task whose identifier is id
PositionOfId(ts, id) == CHOOSE k \in 1..Len(ts) : TaskId(ts[k]) = id

C18_WitnessDelete ==
    /\ hist.op = "delete" /\ ~hist.reloaded
    /\ Len(hist.pre) = 3 /\ Len(tasks) = 2
    /\ hist.id = TaskId(hist.pre[2])

C20_WitnessUnknown ==
    /\ pc = "ready" /\ hist.op = "delete" /\ ~hist.reloaded
    /\ hist.id \notin IdsOf(hist.pre)
    /\ Len(hist.pre) >= 2 /\ tasks = hist.pre

(***************************************************************************)
(* Further properties of the view (specification SpecView).                *)
(***************************************************************************)

\* p comes before q in the order high, medium, low
Outranks(p, q) ==
    \/ p = "high" /\ q \in {"medium", "low"}
    \/ p = "medium" /\ q = "low"

\* C15: under the sort key "priority", every high task is displayed before
\* every medium task and every medium task before every low task, and tasks
\* of the same priority are displayed in the order they have in the
\* collection.
C15_PriorityOrder ==
    filter.sort = "priority"
        => \A i, j \in 1..Len(filteredTasks) :
               i < j =>
                   LET a == filteredTasks[i]
                       b == filteredTasks[j]
                   IN  /\ ~Outranks(b.priority, a.priority)
                       /\ a.priority = b.priority => PositionOf(a) < PositionOf(b)

C15_Witness ==
    /\ filter.sort = "priority"
    /\ Len(tasks) = 3 /\ Len(filteredTasks) = 3
    /\ tasks[1].priority = "low" /\ tasks[2].priority = "high" /\ tasks[3].priority = "low"
    /\ filteredTasks = <<tasks[2], tasks[1], tasks[3]>>

====
